---- MODULE Spec2Model ----
(***************************************************************************)
(* World generation of the 3d adventure game: the seeded RNG               *)
(* (src/src/rng.js) and createWorld (src/unnamed/part_000).                *)
(*                                                                         *)
(* Number representation.  TLC integers are 32-bit signed, so a 32-bit     *)
(* unsigned word is kept as a pair <<hi, lo>> of 16-bit limbs (value       *)
(* hi * 2^16 + lo).  The closure variable t of mulberry32 is a JavaScript  *)
(* number that is never reduced, so its hi limb is left unbounded.         *)
(***************************************************************************)
EXTENDS Integers, Sequences, FiniteSets, TLC

VARIABLES
  arg,      \* arg[j]: the seed argument instance j of the RNG was created from
  rng,      \* rng[j]: RNG instance j, its seed and the closure variable t
  outs,     \* outs[j]: the values rand() of instance j has returned, in order
  intRes,   \* the last rng.int(a, b) call and the value it returned
  cfg,      \* the arguments of createWorld: worldSize, bounds
  plan,     \* the work createWorld does: patches, carvePath calls, candidates
  run,      \* the createWorld call in progress (1, then 2)
  pc,       \* its position
  i,        \* its loop index (patches, tree candidates)
  walk,     \* carvePath's locals: call number, step, x, z, ang, poly
  patches,  \* the patches array
  paths,    \* the paths array
  trees,    \* the addTree calls made on the scene, in order
  landmarks, \* the landmarks array
  log,      \* the rand() calls of this createWorld call, in order, by purpose:
            \* a sequence of runs [ph, n, count] of consecutive calls made for
            \* the same part (and carvePath call n)
  last,     \* the tree candidate handled last: its draws and what became of it
  result,   \* result[r]: what call r returned and placed
  overlay   \* the map overlay: createMapOverlay's options and closure state

vars == <<arg, rng, outs, intRes, cfg, plan, run, pc, i, walk, patches, paths,
          trees, landmarks, log, last, result, overlay>>

worldVars == <<cfg, plan, run, pc, i, walk, patches, paths, trees, landmarks,
               log, last, result>>

\* ------------------------------------------------------------------------
\* Bounds of the model
\* ------------------------------------------------------------------------
\* rand()/int() calls made on one RNG instance in the RNG specification
MaxDraws == 3
\* largest step count given to carvePath in the carvePath specification
MaxSteps == 3
\* tree candidates handled in the scatter specification
MaxCandidates == 2

\* ------------------------------------------------------------------------
\* 32-bit words on 16-bit limbs
\* ------------------------------------------------------------------------
RECURSIVE Xor16(_, _)
Xor16(a, b) ==
  IF a = 0 THEN b
  ELSE IF b = 0 THEN a
  ELSE ((a + b) % 2) + 2 * Xor16(a \div 2, b \div 2)

RECURSIVE Or16(_, _)
Or16(a, b) ==
  IF a = 0 THEN b
  ELSE IF b = 0 THEN a
  ELSE (IF a % 2 = 1 \/ b % 2 = 1 THEN 1 ELSE 0) + 2 * Or16(a \div 2, b \div 2)

RECURSIVE Pow2(_)
Pow2(n) == IF n = 0 THEN 1 ELSE 2 * Pow2(n - 1)

\* ToUint32 / ToInt32 of a non-negative integer-valued number: reduction mod 2^32
ToUint32(w) == <<w[1] % 65536, w[2]>>

Xor32(a, b) == <<Xor16(a[1], b[1]), Xor16(a[2], b[2])>>

\* a | c for a small constant c < 2^16
OrSmall(a, c) == <<a[1], Or16(a[2], c)>>

\* a >>> n for 0 < n < 16
Shr(a, n) ==
  <<a[1] \div Pow2(n), (a[1] % Pow2(n)) * Pow2(16 - n) + a[2] \div Pow2(n)>>

\* exact sum of two non-negative numbers (no reduction)
AddWide(a, b) ==
  LET lo == a[2] + b[2]
  IN  <<a[1] + b[1] + lo \div 65536, lo % 65536>>

\* (x * y) mod 2^16 for 16-bit x, y
MulMod16(x, y) == (((x \div 256) * y % 256) * 256 + (x % 256) * y) % 65536

\* x * y for 16-bit x, y, as <<high 16 bits, low 16 bits>>
MulFull16(x, y) ==
  LET p1 == (x \div 256) * y
      p0 == (x % 256) * y
      s  == (p1 % 256) * 256 + p0
  IN  <<p1 \div 256 + s \div 65536, s % 65536>>

\* Math.imul(a, b): the low 32 bits of the product
imul(a, b) ==
  LET f == MulFull16(a[2], b[2])
  IN  <<(f[1] + MulMod16(a[1], b[2]) + MulMod16(a[2], b[1])) % 65536, f[2]>>

\* ------------------------------------------------------------------------
\* rng.js
\* ------------------------------------------------------------------------
\* the constant 0x6D2B79F5 added to t by every rand()
Increment == <<27947, 31221>>

\* t kept outside the factory: the second instance goes on from the t the
\* first one left
mulberry32Shared(seed) == IF run = 2 THEN rng[1].t ELSE ToUint32(seed)

\* mulberry32(seed): the closure variable of the new rand, t = seed >>> 0
mulberry32(seed) == ToUint32(seed)

\* the body of rand(): the new value of t, and the 32-bit numerator u of the
\* returned float u / 4294967296
RandT(t) == AddWide(t, Increment)

RandU(t1) ==
  LET tw == ToUint32(t1)
      x1 == imul(Xor32(tw, Shr(tw, 15)), OrSmall(tw, 1))
      x2 == Xor32(x1, ToUint32(AddWide(x1, imul(Xor32(x1, Shr(x1, 7)), OrSmall(x1, 61)))))
  IN  Xor32(x2, Shr(x2, 14))

\* hashStringToUint32(str), str a sequence of char codes (FNV-1a)
RECURSIVE HashFrom(_, _, _)
HashFrom(h, str, n) ==
  IF n > Len(str) THEN h
  ELSE HashFrom(imul(<<h[1], Xor16(h[2], str[n])>>, <<256, 403>>), str, n + 1)

hashStringToUint32(str) == ToUint32(HashFrom(<<33052, 40389>>, str, 1))

\* seed arguments a caller can pass: undefined, a string (its char codes), or
\* a number (a non-negative integer below 2^32, as limbs)
Undefined == [k |-> "undefined", c |-> <<>>, w |-> <<0, 0>>]
StrSeed(chars) == [k |-> "string", c |-> chars, w |-> <<0, 0>>]
NumSeed(w) == [k |-> "number", c |-> <<>>, w |-> w]

\* the string "default"
DefaultSeed == StrSeed(<<100, 101, 102, 97, 117, 108, 116>>)

\* a parameter default written as seed || "default": the empty string is
\* replaced as well
SeedParamFalsy(seedArg) ==
  IF seedArg.k = "undefined" \/ (seedArg.k = "string" /\ seedArg.c = <<>>)
  THEN DefaultSeed ELSE seedArg

\* the parameter default of createRng(seed = "default"): it applies to
\* undefined only
SeedParam(seedArg) == IF seedArg.k = "undefined" THEN DefaultSeed ELSE seedArg

\* createRng(seed): the seed s and the closure state of rand
createRng(seedArg) ==
  LET seed == SeedParam(seedArg)
      s == IF seed.k = "number" THEN seed.w ELSE hashStringToUint32(seed.c)
  IN  [kind |-> "mulberry32", seed |-> s, t |-> mulberry32(s)]

\* A value returned by rand(): the fraction (hi * 2^16 + lo) / 2^32 when
\* q is FALSE, the fraction lo / 180 when q is TRUE (an rng object other
\* than createRng's, see AnyRng).
U32Draw(u) == [q |-> FALSE, hi |-> u[1], lo |-> u[2]]

\* floor(d * K) for a draw d and an integer 0 <= K < 2^15
Times(d, K) ==
  IF d.q THEN (d.lo * K) \div 180
  ELSE (d.hi * K + (d.lo * K) \div 65536) \div 65536

\* d < p / q
IsBelow(d, p, q) == Times(d, q) < p

\* rng.int(minInclusive, maxInclusive) for the draw u = <<hi, lo>>:
\* Math.floor(minInclusive + r * (maxInclusive - minInclusive + 1)) in IEEE
\* double arithmetic.  r = u / 2^32 and the product r * n are exact (n < 2^15);
\* the sum is rounded to 53 significant bits, ties to even.  Covers
\* -2^21 <= minInclusive and maxInclusive + 1 < 2^31.
RECURSIVE HighestPow2(_)
HighestPow2(m) == IF m < 2 THEN 1 ELSE 2 * HighestPow2(m \div 2)

FloorOfSum(a, u, n) ==
  LET whi == u[1] * n + (u[2] * n) \div 65536
      wlo == (u[2] * n) % 65536
      ip  == a + whi \div 65536      \* integer part of the exact sum
      fhi == whi % 65536             \* its fraction, in units of 2^-32
      \* one unit in the last place of the sum, in units of 2^-32
      ulp == IF ip < 2097152 THEN 1 ELSE HighestPow2(ip \div 1048576)
      rem == wlo % ulp
      up  == rem * 2 > ulp \/ (rem * 2 = ulp /\ (wlo \div ulp) % 2 = 1)
      rlo == IF up THEN wlo - rem + ulp ELSE wlo - rem
      rhi == fhi + rlo \div 65536
  IN  ip + rhi \div 65536

rngInt(minInclusive, maxInclusive, u) ==
  FloorOfSum(minInclusive, u, maxInclusive - minInclusive + 1)

\* rand() on a createRng instance: the value returned and the instance after
rand(r) ==
  LET t1 == RandT(r.t)
  IN  [d |-> U32Draw(RandU(t1)), r |-> [r EXCEPT !.t = t1]]

NoInt == [called |-> FALSE, a |-> 0, b |-> 0, v |-> 0]
NoWalk == [k |-> 0, j |-> 0, x |-> 0, z |-> 0, ang |-> 0, poly |-> <<>>]
NoLast == [i |-> -1, x |-> 0, z |-> 0, roles |-> <<>>, thin |-> <<>>, placed |-> FALSE]
NoWorld == [bounds |-> 0, patches |-> <<>>, paths |-> <<>>, landmarks |-> <<>>]
NoResult == [returned |-> FALSE, world |-> NoWorld, trees |-> <<>>]
NoOverlay ==
  [toggleKey |-> "", onOpen |-> FALSE, onClose |-> FALSE, isOpen |-> FALSE,
   display |-> "none", viewport |-> "", canvas |-> "", calls |-> <<>>,
   op |-> "", wasOpen |-> FALSE, events |-> 0]

\* ------------------------------------------------------------------------
\* part_000: createWorld
\* ------------------------------------------------------------------------
\* Lengths and coordinates are fixed point, 64 units to one world unit, the
\* double truncated downwards; angles are in 1/4096 of a turn.

\* (rand() - 0.5) * span
Coord(d, span) == Times(d, span * 64) - span * 32

\* sin(k * pi / 32) * 1024 for k = 0..16
QuarterSine ==
  <<0, 100, 200, 297, 392, 483, 569, 650, 724, 792, 851, 903, 946, 980, 1004,
    1019, 1024>>

\* Math.sin(ang) * 1024 and Math.cos(ang) * 1024, to 1/64 of a turn
Sin(ang) ==
  LET s == (ang % 4096) \div 64
      r == s % 16
  IN  CASE s \div 16 = 0 -> QuarterSine[r + 1]
        [] s \div 16 = 1 -> QuarterSine[17 - r]
        [] s \div 16 = 2 -> 0 - QuarterSine[r + 1]
        [] OTHER         -> 0 - QuarterSine[17 - r]

Cos(ang) == Sin(ang + 1024)

v2(x, z) == [x |-> x, z |-> z]

\* the number of addPatch calls of the patch loop
patchCount == 70

\* the third call made with steps: 75 like the first two
carvePathCallsAll75 ==
  << [startX |-> -60, startZ |-> 20,  steps |-> 75, stepLen |-> 7, width |-> 50],
     [startX |-> 40,  startZ |-> -30, steps |-> 75, stepLen |-> 7, width |-> 50],
     [startX |-> 0,   startZ |-> 0,   steps |-> 75, stepLen |-> 8, width |-> 52] >>

\* the three carvePath calls of createWorld; width in tenths, turnChance is
\* left at its default 0.12
carvePathCalls ==
  << [startX |-> -60, startZ |-> 20,  steps |-> 75, stepLen |-> 7, width |-> 50],
     [startX |-> 40,  startZ |-> -30, steps |-> 75, stepLen |-> 7, width |-> 50],
     [startX |-> 0,   startZ |-> 0,   steps |-> 55, stepLen |-> 8, width |-> 52] >>

treeCount == 650

\* the corridors of nearCorridor
corridors ==
  << [x |-> -60, z |-> 20, r |-> 22],
     [x |-> 40, z |-> -30, r |-> 22],
     [x |-> 0, z |-> 0, r |-> 20] >>

\* the comparison written <=
WithinRadiusInclusive(d2, r2) == d2 <= r2

\* the comparison of nearCorridor
WithinRadius(d2, r2) == d2 < r2

nearCorridor(x, z) ==
  \E n \in 1..Len(corridors) :
    LET c  == corridors[n]
        dx == x - c.x * 64
        dz == z - c.z * 64
    IN  WithinRadius(dx * dx + dz * dz, (c.r * 64) * (c.r * 64))

\* a list in which the fourth landmark reuses the id of the second
addLandmarksReusedId ==
  << [id |-> "stone_ring", name |-> "Stone Ring", type |-> "stone", x |-> -120, z |-> -80],
     [id |-> "pond", name |-> "Pond", type |-> "water", x |-> 110, z |-> 90],
     [id |-> "watch_rock", name |-> "Watch Rock", type |-> "rock", x |-> -140, z |-> 120],
     [id |-> "pond", name |-> "Dead Tree", type |-> "tree", x |-> 150, z |-> -110] >>

\* addLandmarks(scene): the list it returns
addLandmarks ==
  << [id |-> "stone_ring", name |-> "Stone Ring", type |-> "stone", x |-> -120, z |-> -80],
     [id |-> "pond", name |-> "Pond", type |-> "water", x |-> 110, z |-> 90],
     [id |-> "watch_rock", name |-> "Watch Rock", type |-> "rock", x |-> -140, z |-> 120],
     [id |-> "dead_tree", name |-> "Dead Tree", type |-> "tree", x |-> 150, z |-> -110] >>

\* An rng object that is not createRng's: rand() may return any of the values
\* DrawNums / 180; t counts its calls.
DrawNums == {82, 96, 135}

AnyRng == [kind |-> "any", seed |-> <<0, 0>>, t |-> <<0, 0>>]
NoRng == [kind |-> "none", seed |-> <<0, 0>>, t |-> <<0, 0>>]

\* rng.rand() as createWorld calls it: the possible (value, rng after) pairs
RandOutcomes(r) ==
  IF r.kind = "mulberry32" THEN {rand(r)}
  ELSE {[d |-> [q |-> TRUE, hi |-> 0, lo |-> n],
         r |-> [r EXCEPT !.t = AddWide(@, <<0, 1>>)]] : n \in DrawNums}

\* the log after count more rand() calls made for part ph (carvePath call n)
Drew(lg, ph, n, count) ==
  IF lg # <<>> /\ lg[Len(lg)].ph = ph /\ lg[Len(lg)].n = n
  THEN [lg EXCEPT ![Len(lg)].count = @ + count]
  ELSE Append(lg, [ph |-> ph, n |-> n, count |-> count])

\* the tree loop written before the carvePath calls
NextPartTreesFirst(part) ==
  CASE part = "patches" -> "trees"
    [] part = "trees"   -> "paths"
    [] part = "paths"   -> "landmarks"
    [] OTHER            -> "return"

\* the statement order of createWorld: what follows each of its parts
NextPart(part) ==
  CASE part = "patches" -> "paths"
    [] part = "paths"   -> "trees"
    [] part = "trees"   -> "landmarks"
    [] OTHER            -> "return"

\* the caller: rng = createRng(seed); createWorld({ scene, rng, worldSize,
\* bounds }) up to the patch loop
CallCreateWorld ==
  /\ pc = "start"
  /\ rng' = [rng EXCEPT ![run] = createRng(arg[run])]
  /\ patches' = <<>>
  /\ paths' = <<>>
  /\ trees' = <<>>
  /\ landmarks' = <<>>
  /\ log' = <<>>
  /\ last' = NoLast
  /\ walk' = [NoWalk EXCEPT !.k = 1]
  /\ i' = 0
  /\ pc' = "patches"
  /\ UNCHANGED <<overlay, arg, outs, intRes, cfg, plan, run, result>>

\* one iteration of the patch loop: three draws, one addPatch
AddPatch ==
  /\ pc = "patches"
  /\ i < plan.patchCount
  /\ \E o1 \in RandOutcomes(rng[run]) :
       \E o2 \in RandOutcomes(o1.r) :
         \E o3 \in RandOutcomes(o2.r) :
           /\ rng' = [rng EXCEPT ![run] = o3.r]
           /\ patches' = Append(patches,
                [x |-> Coord(o1.d, 350), z |-> Coord(o2.d, 350),
                 r |-> 6 * 64 + Times(o3.d, 14 * 64), color |-> 2842420])
  /\ log' = Drew(log, "patch", 0, 3)
  /\ IF i + 1 < plan.patchCount
     THEN i' = i + 1 /\ pc' = pc
     ELSE i' = 0 /\ pc' = NextPart("patches")
  /\ UNCHANGED <<overlay, arg, outs, intRes, cfg, plan, run, walk, paths, trees,
                 landmarks, last, result>>

\* the loop condition written i <= steps
StepsLeftInclusive(j, steps) == j <= steps

\* the loop condition of carvePath
StepsLeft(j, steps) == j < steps

\* carvePath({...}) up to its loop: one draw for the heading
CarveBegin ==
  /\ pc = "paths"
  /\ walk.k <= Len(plan.paths)
  /\ LET def == plan.paths[walk.k]
     IN  \E o \in RandOutcomes(rng[run]) :
           /\ rng' = [rng EXCEPT ![run] = o.r]
           /\ walk' = [k |-> walk.k, j |-> 0,
                       x |-> def.startX * 64, z |-> def.startZ * 64,
                       ang |-> Times(o.d, 4096),
                       poly |-> <<v2(def.startX * 64, def.startZ * 64)>>]
  /\ log' = Drew(log, "path", walk.k, 1)
  /\ pc' = "carve"
  /\ UNCHANGED <<overlay, arg, outs, intRes, cfg, plan, run, i, patches, paths, trees,
                 landmarks, last, result>>

\* one step of the walk with heading ang: the new position is pushed
Advance(r, ang, draws) ==
  LET def == plan.paths[walk.k]
      nx  == walk.x + (Cos(ang) * def.stepLen) \div 16
      nz  == walk.z + (Sin(ang) * def.stepLen) \div 16
  IN  /\ rng' = [rng EXCEPT ![run] = r]
      /\ walk' = [walk EXCEPT !.j = @ + 1, !.x = nx, !.z = nz, !.ang = ang,
                              !.poly = Append(@, v2(nx, nz))]
      /\ log' = Drew(log, "path", walk.k, draws)

\* one iteration of carvePath's loop: one draw, a second one when turning
CarveStep ==
  /\ pc = "carve"
  /\ StepsLeft(walk.j, plan.paths[walk.k].steps)
  /\ \E o1 \in RandOutcomes(rng[run]) :
       IF IsBelow(o1.d, 3, 25)
       THEN \E o2 \in RandOutcomes(o1.r) :
              Advance(o2.r, walk.ang + Times(o2.d, 782) - 391, 2)
       ELSE Advance(o1.r, walk.ang, 1)
  /\ UNCHANGED <<overlay, arg, outs, intRes, cfg, plan, run, pc, i, patches, paths,
                 trees, landmarks, last, result>>

\* the end of carvePath: paths.push({ width, points: poly })
CarveEnd ==
  /\ pc = "carve"
  /\ ~StepsLeft(walk.j, plan.paths[walk.k].steps)
  /\ paths' = Append(paths, [width |-> plan.paths[walk.k].width, points |-> walk.poly])
  /\ walk' = [NoWalk EXCEPT !.k = walk.k + 1]
  /\ pc' = IF walk.k < Len(plan.paths) THEN "paths" ELSE NextPart("paths")
  /\ UNCHANGED <<overlay, arg, rng, outs, intRes, cfg, plan, run, i, patches, trees,
                 landmarks, log, last, result>>

\* the end of one iteration of the tree loop
Candidate(r, x, z, roles, thin, placed, size) ==
  /\ rng' = [rng EXCEPT ![run] = r]
  /\ trees' = IF placed THEN Append(trees, [x |-> x, z |-> z, s |-> size, i |-> i])
              ELSE trees
  /\ last' = [i |-> i, x |-> x, z |-> z, roles |-> roles, thin |-> thin,
              placed |-> placed]
  /\ log' = Drew(log, "tree", 0, Len(roles))

\* 0.75 + rand() * 0.9
TreeSize(d) == 48 + Times(d, 576) \div 10

\* one iteration of the tree loop: one candidate
TreeStep ==
  /\ pc = "trees"
  /\ i < plan.treeCount
  /\ \E o1 \in RandOutcomes(rng[run]) :
       \E o2 \in RandOutcomes(o1.r) :
         LET x == Coord(o1.d, 360)
             z == Coord(o2.d, 360)
         IN  \E o3 \in RandOutcomes(o2.r) :
               IF nearCorridor(x, z)
               THEN IF IsBelow(o3.d, 3, 4)
                    THEN Candidate(o3.r, x, z, <<"x", "z", "thin">>, <<o3.d>>, FALSE, 0)
                    ELSE \E o4 \in RandOutcomes(o3.r) :
                           Candidate(o4.r, x, z, <<"x", "z", "thin", "size">>,
                                     <<o3.d>>, TRUE, TreeSize(o4.d))
               ELSE Candidate(o3.r, x, z, <<"x", "z", "size">>, <<>>, TRUE,
                              TreeSize(o3.d))
  /\ IF i + 1 < plan.treeCount
     THEN i' = i + 1 /\ pc' = pc
     ELSE i' = 0 /\ pc' = NextPart("trees")
  /\ UNCHANGED <<overlay, arg, outs, intRes, cfg, plan, run, walk, patches, paths,
                 landmarks, result>>

\* const landmarks = addLandmarks(scene)
AddLandmarks ==
  /\ pc = "landmarks"
  /\ landmarks' = addLandmarks
  /\ pc' = NextPart("landmarks")
  /\ UNCHANGED <<overlay, arg, rng, outs, intRes, cfg, plan, run, i, walk, patches,
                 paths, trees, log, last, result>>

\* return { bounds, patches, paths, landmarks }; the caller then makes the
\* second call
Return ==
  /\ pc = "return"
  /\ result' = [result EXCEPT ![run] =
       [returned |-> TRUE,
        world |-> [bounds |-> cfg.bounds, patches |-> patches, paths |-> paths,
                   landmarks |-> landmarks],
        trees |-> trees]]
  /\ IF run < 2 THEN run' = run + 1 /\ pc' = "start"
                ELSE run' = run /\ pc' = "done"
  /\ UNCHANGED <<overlay, arg, rng, outs, intRes, cfg, plan, i, walk, patches, paths,
                 trees, landmarks, log, last>>

\* createWorld called twice with the same worldSize and bounds, each time
\* with a fresh createRng(seed); arg[r] is the seed of call r
WorldSeeds == {DefaultSeed, NumSeed(<<0, 0>>)}

WorldConfigs ==
  { [worldSize |-> 500, bounds |-> 240], [worldSize |-> 0, bounds |-> -1] }

Init ==
  /\ arg \in [1..2 -> WorldSeeds]
  /\ rng = [j \in 1..2 |-> NoRng]
  /\ outs = [j \in 1..2 |-> <<>>]
  /\ intRes = NoInt
  /\ cfg \in WorldConfigs
  /\ plan = [patchCount |-> patchCount, paths |-> carvePathCalls,
             treeCount |-> treeCount]
  /\ run = 1
  /\ pc = "start"
  /\ i = 0
  /\ walk = NoWalk
  /\ patches = <<>>
  /\ paths = <<>>
  /\ trees = <<>>
  /\ landmarks = <<>>
  /\ log = <<>>
  /\ last = NoLast
  /\ result = [r \in 1..2 |-> NoResult]
  /\ overlay = NoOverlay

Next ==
  \/ CallCreateWorld
  \/ AddPatch
  \/ CarveBegin
  \/ CarveStep
  \/ CarveEnd
  \/ TreeStep
  \/ AddLandmarks
  \/ Return

Spec == Init /\ [][Next]_vars

\* ------------------------------------------------------------------------
\* carvePath on its own: one or two calls with arguments of any kind
\* ------------------------------------------------------------------------
CarveDefs ==
  { [startX |-> st[1], startZ |-> st[2], steps |-> n, stepLen |-> 7, width |-> 50] :
      st \in {<<-60, 20>>, <<0, 0>>}, n \in -1..MaxSteps }

CarvePlans ==
  {<<d>> : d \in CarveDefs} \cup {<<d, e>> : d \in CarveDefs, e \in CarveDefs}

InitCarve ==
  /\ \E sd \in WorldSeeds : arg = [j \in 1..2 |-> sd]
  /\ rng = [j \in 1..2 |-> IF j = 1 THEN createRng(arg[j]) ELSE NoRng]
  /\ outs = [j \in 1..2 |-> <<>>]
  /\ intRes = NoInt
  /\ cfg = [worldSize |-> 500, bounds |-> 240]
  /\ plan \in [patchCount : {0}, paths : CarvePlans, treeCount : {0}]
  /\ run = 1
  /\ pc = "paths"
  /\ i = 0
  /\ walk = [NoWalk EXCEPT !.k = 1]
  /\ patches = <<>>
  /\ paths = <<>>
  /\ trees = <<>>
  /\ landmarks = <<>>
  /\ log = <<>>
  /\ last = NoLast
  /\ result = [r \in 1..2 |-> NoResult]
  /\ overlay = NoOverlay

NextCarve ==
  \/ CarveBegin
  \/ CarveStep
  \/ CarveEnd

SpecCarve == InitCarve /\ [][NextCarve]_vars

\* ------------------------------------------------------------------------
\* The tree loop on its own, with an rng whose rand() may return any value
\* ------------------------------------------------------------------------
InitScatter ==
  /\ arg = [j \in 1..2 |-> Undefined]
  /\ rng = [j \in 1..2 |-> IF j = 1 THEN AnyRng ELSE NoRng]
  /\ outs = [j \in 1..2 |-> <<>>]
  /\ intRes = NoInt
  /\ cfg = [worldSize |-> 500, bounds |-> 240]
  /\ plan = [patchCount |-> 0, paths |-> <<>>, treeCount |-> MaxCandidates]
  /\ run = 1
  /\ pc = "trees"
  /\ i = 0
  /\ walk = NoWalk
  /\ patches = <<>>
  /\ paths = <<>>
  /\ trees = <<>>
  /\ landmarks = <<>>
  /\ log = <<>>
  /\ last = NoLast
  /\ result = [r \in 1..2 |-> NoResult]
  /\ overlay = NoOverlay

NextScatter == TreeStep

SpecScatter == InitScatter /\ [][NextScatter]_vars

\* ------------------------------------------------------------------------
\* The RNG on its own: two instances, rand() and int() calls in any order
\* ------------------------------------------------------------------------
EmptySeed == StrSeed(<<>>)

\* seeds tried: undefined, "", "default", 0 and 32339094
SeedArgs ==
  {Undefined, EmptySeed, DefaultSeed, NumSeed(<<0, 0>>), NumSeed(<<493, 29846>>)}

\* (minInclusive, maxInclusive) pairs tried
IntRanges == {<<0, 0>>, <<-2, 3>>, <<1, 6>>, <<1073741824, 1073741824>>}

WorldIdle ==
  /\ cfg = [worldSize |-> 0, bounds |-> 0]
  /\ plan = [patchCount |-> 0, paths |-> <<>>, treeCount |-> 0]
  /\ run = 0
  /\ pc = "idle"
  /\ i = 0
  /\ walk = NoWalk
  /\ patches = <<>>
  /\ paths = <<>>
  /\ trees = <<>>
  /\ landmarks = <<>>
  /\ log = <<>>
  /\ last = NoLast
  /\ result = [r \in 1..2 |-> NoResult]

InitRng ==
  /\ arg \in [1..2 -> SeedArgs]
  /\ rng = [j \in 1..2 |-> createRng(arg[j])]
  /\ outs = [j \in 1..2 |-> <<>>]
  /\ intRes = NoInt
  /\ WorldIdle
  /\ overlay = NoOverlay

\* rng.rand()
CallRand(j) ==
  /\ Len(outs[j]) < MaxDraws
  /\ LET o == rand(rng[j])
     IN  /\ rng' = [rng EXCEPT ![j] = o.r]
         /\ outs' = [outs EXCEPT ![j] = Append(@, <<o.d.hi, o.d.lo>>)]
  /\ UNCHANGED <<overlay, arg, intRes, worldVars>>

\* rng.int(a, b)
CallInt(j, a, b) ==
  /\ Len(outs[j]) < MaxDraws
  /\ LET o == rand(rng[j])
         u == <<o.d.hi, o.d.lo>>
     IN  /\ rng' = [rng EXCEPT ![j] = o.r]
         /\ outs' = [outs EXCEPT ![j] = Append(@, u)]
         /\ intRes' = [called |-> TRUE, a |-> a, b |-> b, v |-> rngInt(a, b, u)]
  /\ UNCHANGED <<overlay, arg, worldVars>>

NextRng ==
  \/ \E j \in 1..2 : CallRand(j)
  \/ \E j \in 1..2 : \E ab \in IntRanges : CallInt(j, ab[1], ab[2])

SpecRng == InitRng /\ [][NextRng]_vars

\* ------------------------------------------------------------------------
\* map.js: createMapOverlay
\*
\* overlay holds the options the overlay was created with (toggleKey, and for
\* onOpen / onClose whether the value passed is a function), the closure
\* variable isOpen, root.style.display, the size of the canvas, the size of
\* the window, and the calls made to the two callbacks, in order.  op,
\* wasOpen and events record the operation performed last, the value isOpen
\* had before it, and how many operations there have been.
\*
\* open() and close() assign isOpen and root.style.display before they call
\* the callback, and after it open() only calls draw().  A call of open(),
\* close() or toggle() made from inside a callback is therefore the same as
\* that call made after an open() or close() whose callback threw (which
\* skips draw()), followed by redraw(): both are steps of NextMap.
\* ------------------------------------------------------------------------
MaxEvents == 5

\* values of the toggleKey option
ToggleKeys == {"m", "M"}

\* values of e.key of a keydown event
Keys == {"m", "M", "x", "Escape"}

\* window sizes
Viewports == {"narrow", "wide"}

\* e.key.toLowerCase()
toLowerCase(k) ==
  CASE k = "M" -> "m"
    [] k = "Escape" -> "escape"
    [] OTHER -> k

\* what becomes of "if (typeof cb === "function") cb()": the callback is not
\* a function and is not called, or it is called and returns or throws
CallbackOutcomes(isFunction) ==
  IF isFunction THEN {"returns", "throws"} ELSE {"absent"}

\* resizeCanvasToDisplaySize: the canvas takes the size of its bounding
\* rect, which is empty while root is not displayed (then the canvas is 1x1)
resizeCanvasToDisplaySize(o) ==
  [o EXCEPT !.canvas = IF o.display = "none" THEN "1x1" ELSE o.viewport]

draw(o) == resizeCanvasToDisplaySize(o)

open(o, cb) ==
  IF o.isOpen
    THEN o
    ELSE LET s == [o EXCEPT !.isOpen = TRUE,
                            !.display = "flex",
                            !.calls = IF cb = "absent" THEN @
                                      ELSE Append(@, "onOpen")]
         IN  IF cb = "throws" THEN s ELSE draw(s)

closeUnguarded(o, cb) ==
  [o EXCEPT !.isOpen = FALSE,
            !.display = "none",
            !.calls = IF cb = "absent" THEN @ ELSE Append(@, "onClose")]

close(o, cb) ==
  IF ~o.isOpen
    THEN o
    ELSE [o EXCEPT !.isOpen = FALSE,
                   !.display = "none",
                   !.calls = IF cb = "absent" THEN @ ELSE Append(@, "onClose")]

toggle(o, cbOpen, cbClose) ==
  IF o.isOpen THEN close(o, cbClose) ELSE open(o, cbOpen)

\* one operation on the overlay, which leaves it as o2
Operation(name, o2) ==
  /\ overlay.events < MaxEvents
  /\ overlay' = [o2 EXCEPT !.op = name,
                           !.wasOpen = overlay.isOpen,
                           !.events = overlay.events + 1]
  /\ UNCHANGED <<arg, rng, outs, intRes, worldVars>>

\* the returned API: open, close, toggle, redraw
ApiOpen ==
  \E cb \in CallbackOutcomes(overlay.onOpen) :
    Operation("open", open(overlay, cb))

ApiClose ==
  \E cb \in CallbackOutcomes(overlay.onClose) :
    Operation("close", close(overlay, cb))

ApiToggle ==
  \E cbOpen \in CallbackOutcomes(overlay.onOpen) :
    \E cbClose \in CallbackOutcomes(overlay.onClose) :
      Operation("toggle", toggle(overlay, cbOpen, cbClose))

ApiRedraw == Operation("redraw", draw(overlay))

\* a click on the background reaches root's listener
RootClick ==
  \E cb \in CallbackOutcomes(overlay.onClose) :
    Operation("rootClick", close(overlay, cb))

\* a click inside the panel: the panel's listener stops its propagation
PanelClick == Operation("panelClick", overlay)

KeyDown(key) ==
  \E cbOpen \in CallbackOutcomes(overlay.onOpen) :
    \E cbClose \in CallbackOutcomes(overlay.onClose) :
      Operation("keydown",
                IF toLowerCase(key) = overlay.toggleKey
                  THEN toggle(overlay, cbOpen, cbClose)
                  ELSE overlay)

\* the window takes size v
Resize(v) ==
  LET o == [overlay EXCEPT !.viewport = v]
  IN  Operation("resize", IF o.isOpen THEN draw(o) ELSE o)

InitMap ==
  /\ arg = [j \in 1..2 |-> Undefined]
  /\ rng = [j \in 1..2 |-> NoRng]
  /\ outs = [j \in 1..2 |-> <<>>]
  /\ intRes = NoInt
  /\ WorldIdle
  /\ \E key \in ToggleKeys : \E fo \in BOOLEAN : \E fc \in BOOLEAN :
       \E v \in Viewports :
         overlay = [toggleKey |-> key, onOpen |-> fo, onClose |-> fc,
                    isOpen |-> FALSE, display |-> "none", viewport |-> v,
                    canvas |-> "900x700", calls |-> <<>>,
                    op |-> "createMapOverlay", wasOpen |-> FALSE,
                    events |-> 0]

NextMap ==
  \/ ApiOpen
  \/ ApiClose
  \/ ApiToggle
  \/ ApiRedraw
  \/ RootClick
  \/ PanelClick
  \/ \E key \in Keys : KeyDown(key)
  \/ \E v \in Viewports : Resize(v)

SpecMap == InitMap /\ [][NextMap]_vars

\* ------------------------------------------------------------------------
\* Claims about createWorld (checked under Spec unless said otherwise)
\* ------------------------------------------------------------------------
DefaultConfig == [worldSize |-> 500, bounds |-> 240]

\* C1: two createWorld calls given fresh RNGs of the same seed and the same
\* worldSize and bounds return equal World data (patches, paths, landmarks,
\* bounds) and place the same trees in the same order.
C1_Deterministic ==
  (result[1].returned /\ result[2].returned /\ arg[1] = arg[2])
    => result[1] = result[2]

\* C1 witness: both calls of one seed have returned, with patches, paths and
\* trees made
C1_Witness ==
  /\ result[1].returned /\ result[2].returned /\ arg[1] = arg[2]
  /\ Len(result[2].world.patches) = patchCount
  /\ Len(result[2].world.paths) = Len(carvePathCalls)
  /\ Len(result[2].trees) > 0

\* the place of a run of draws in the order patches, path 1, path 2, ...,
\* trees
Rank(e) ==
  CASE e.ph = "patch" -> 0
    [] e.ph = "path"  -> e.n
    [] OTHER          -> Len(plan.paths) + 1

\* C2: inside one createWorld call every patch draw precedes every path
\* draw, the draws of path k precede those of path k+1, every path draw
\* precedes every tree draw, and addLandmarks makes no draw: it leaves the
\* RNG as it found it.
C2_DrawOrder ==
  /\ [](\A n \in 1..(Len(log) - 1) : Rank(log[n]) < Rank(log[n + 1]))
  /\ [][pc = "landmarks" => (rng' = rng /\ log' = log)]_vars

\* C2 witness: a call has made draws for the patches, for each of the three
\* paths and for the trees, and addLandmarks has run
C2_Witness ==
  /\ pc = "return"
  /\ Len(log) = Len(plan.paths) + 2
  /\ landmarks # <<>>

\* C3 as claimed: with seed "default" and the default parameters the World
\* has exactly 3 paths and each has exactly 76 points.
C3_ThreePathsOf76 ==
  \A r \in 1..2 :
    (result[r].returned /\ arg[r] = DefaultSeed /\ cfg = DefaultConfig)
      => /\ Len(result[r].world.paths) = 3
         /\ \A n \in 1..Len(result[r].world.paths) :
              Len(result[r].world.paths[n].points) = 76

\* C3 as amended: with seed "default" and the default parameters the World
\* has exactly 3 paths, of 76, 76 and 56 points (steps 75, 75 and 55).
C3_PathsOf76_76_56 ==
  \A r \in 1..2 :
    (result[r].returned /\ arg[r] = DefaultSeed /\ cfg = DefaultConfig)
      => /\ Len(result[r].world.paths) = 3
         /\ Len(result[r].world.paths[1].points) = 76
         /\ Len(result[r].world.paths[2].points) = 76
         /\ Len(result[r].world.paths[3].points) = 56

\* C3 witness: a call with seed "default" and the default parameters has
\* returned
C3_Witness ==
  result[1].returned /\ arg[1] = DefaultSeed /\ cfg = DefaultConfig

\* C4 (under SpecCarve): every carvePath call with steps >= 0 appends exactly
\* one path, of steps + 1 points in walk order, the first being (startX,
\* startZ); steps = 0 gives the single start point.
C4_PathShape ==
  /\ Len(paths) = walk.k - 1    \* walk.k - 1 calls have ended
  /\ \A n \in 1..Len(paths) :
       LET def == plan.paths[n]
       IN  def.steps >= 0 =>
             /\ Len(paths[n].points) = def.steps + 1
             /\ paths[n].points[1] = v2(def.startX * 64, def.startZ * 64)
  /\ pc = "carve" =>
       /\ Len(walk.poly) = walk.j + 1
       /\ walk.poly[Len(walk.poly)] = v2(walk.x, walk.z)

\* C4 witness: a call with steps = 0 and a call with steps > 0 have both
\* appended their paths
C4_Witness ==
  /\ Len(plan.paths) = 2 /\ Len(paths) = 2
  /\ plan.paths[1].steps = 0 /\ paths[1].points = <<v2(-60 * 64, 20 * 64)>>
  /\ plan.paths[2].steps = MaxSteps

\* what the specification calls a valid configuration
ValidConfig(c) == c.worldSize > 0 /\ c.bounds > 0

\* C8: with an invalid configuration (zero or negative worldSize or bounds)
\* generation is rejected before any RNG draw and no World is returned.
C8_InvalidConfigRejected ==
  ~ValidConfig(cfg) =>
    (log = <<>> /\ \A r \in 1..2 : ~result[r].returned)

\* C9: in every World returned the landmark ids are pairwise distinct, the
\* list is the same for every call and every seed, and it has a landmark
\* "pond" at x = 110, z = 90.
C9_Landmarks ==
  \A r \in 1..2 : result[r].returned =>
    LET lm == result[r].world.landmarks
    IN  /\ \A m \in 1..Len(lm) : \A n \in 1..Len(lm) : lm[m].id = lm[n].id => m = n
        /\ \E n \in 1..Len(lm) : lm[n].id = "pond" /\ lm[n].x = 110 /\ lm[n].z = 90
        /\ \A q \in 1..2 : result[q].returned => result[q].world.landmarks = lm

\* C9 witness: two calls with different seeds have returned
C9_Witness ==
  result[1].returned /\ result[2].returned /\ arg[1] # arg[2]

\* squared distance of (x, z) to the centre of corridor c, and the square
\* of its radius
DistSq(x, z, c) == (x - c.x * 64) * (x - c.x * 64) + (z - c.z * 64) * (z - c.z * 64)
RadiusSq(c) == (c.r * 64) * (c.r * 64)

\* the scatter protocol for the candidate handled last, given whether it is
\* inside a corridor
ScatterProtocol(inside) ==
  /\ Len(trees) <= plan.treeCount
  /\ \A n \in 1..(Len(trees) - 1) : trees[n].i < trees[n + 1].i
  /\ last.i >= 0 =>
       /\ Len(last.roles) >= 2 /\ last.roles[1] = "x" /\ last.roles[2] = "z"
       /\ inside <=> (Len(last.roles) >= 3 /\ last.roles[3] = "thin")
       /\ inside => (~last.placed <=> IsBelow(last.thin[1], 3, 4))
       /\ ~inside => last.placed
       /\ last.placed =>
            /\ last.roles[Len(last.roles)] = "size"
            /\ Len(last.roles) = (IF inside THEN 4 ELSE 3)
            /\ trees # <<>>
            /\ trees[Len(trees)].i = last.i
            /\ trees[Len(trees)].x = last.x /\ trees[Len(trees)].z = last.z
       /\ ~last.placed =>
            /\ Len(last.roles) = 3
            /\ \A n \in 1..Len(trees) : trees[n].i # last.i

\* C10 as claimed (under SpecScatter): a candidate is inside a corridor when
\* its squared distance to some centre is at most the squared radius.
C10_ScatterInclusive ==
  ScatterProtocol(\E n \in 1..Len(corridors) :
                    DistSq(last.x, last.z, corridors[n]) <= RadiusSq(corridors[n]))

\* C10 as amended (under SpecScatter): per candidate exactly two position
\* draws; the candidate is inside a corridor when its squared distance to
\* some centre is strictly less than the squared radius; only then one more
\* draw is made and the candidate is skipped iff that draw is below 0.75;
\* every candidate not skipped makes one size draw and places one tree; the
\* trees are at most treeCount and in candidate order.
C10_ScatterExclusive ==
  ScatterProtocol(\E n \in 1..Len(corridors) :
                    DistSq(last.x, last.z, corridors[n]) < RadiusSq(corridors[n]))

\* C10 witness: a candidate on the boundary of the third corridor, at
\* (12, -16), has been placed after a candidate inside it was skipped
C10_Witness ==
  /\ last.i = 1 /\ last.x = 12 * 64 /\ last.z = -16 * 64 /\ last.placed
  /\ last.roles = <<"x", "z", "size">>
  /\ Len(trees) = 1

\* ------------------------------------------------------------------------
\* Claims about the RNG (checked under SpecRng)
\* ------------------------------------------------------------------------
\* one sequence of outputs is a prefix of the other
SameOutputs(p, q) ==
  \A n \in 1..Len(p) : n <= Len(q) => p[n] = q[n]

\* C5: the stored counter t is a 32-bit unsigned integer, t in [0, 2^32), in
\* every state reached by rand() calls, and every rand() call changes it.
C5_CounterIsUint32 ==
  /\ [](\A j \in 1..2 : rng[j].t[1] < 65536 /\ rng[j].t[2] < 65536)
  /\ [][\A j \in 1..2 : outs'[j] # outs[j] => rng'[j].t # rng[j].t]_vars

\* C6: for integers a <= b, int(a, b) returns v with a <= v <= b.
C6_IntWithinRange ==
  intRes.called => (intRes.a <= intRes.v /\ intRes.v <= intRes.b)

\* C7 as claimed: createRng(undefined) and createRng("") both have the seed
\* and the output sequence of createRng("default").
C7_MalformedFallsBack ==
  \A j \in 1..2 : \A m \in 1..2 :
    (arg[j] \in {Undefined, EmptySeed} /\ arg[m] = DefaultSeed)
      => (rng[j].seed = rng[m].seed /\ SameOutputs(outs[j], outs[m]))

\* C7 as amended: createRng(undefined) has the seed and the output sequence
\* of createRng("default"); createRng("") does not fall back, its seed is the
\* hash of the empty string, 2166136261, which is not the seed of "default",
\* and its first output differs from that of "default".
C7_UndefinedFallsBack ==
  \A j \in 1..2 : \A m \in 1..2 :
    /\ (arg[j] = Undefined /\ arg[m] = DefaultSeed)
         => (rng[j].seed = rng[m].seed /\ SameOutputs(outs[j], outs[m]))
    /\ arg[j] = EmptySeed => rng[j].seed = <<33052, 40389>>
    /\ (arg[j] = EmptySeed /\ arg[m] = DefaultSeed)
         => /\ rng[j].seed # rng[m].seed
            /\ (Len(outs[j]) > 0 /\ Len(outs[m]) > 0) => outs[j][1] # outs[m][1]

\* C7 witness: one instance made from undefined and one from "default" have
\* both made every draw
C7_Witness ==
  /\ arg[1] = Undefined /\ arg[2] = DefaultSeed
  /\ Len(outs[1]) = MaxDraws /\ Len(outs[2]) = MaxDraws

\* ------------------------------------------------------------------------
\* Claims about the map overlay (checked under SpecMap)
\* ------------------------------------------------------------------------
DisplayMatchesIsOpen ==
  overlay.display = IF overlay.isOpen THEN "flex" ELSE "none"

\* the calls made to the callbacks are onOpen, onClose, onOpen, ...
Alternates(s) ==
  \A k \in DOMAIN s : s[k] = IF k % 2 = 1 THEN "onOpen" ELSE "onClose"

Count(s, name) == Cardinality({k \in DOMAIN s : s[k] = name})

CallbacksBalanced ==
  /\ Alternates(overlay.calls)
  /\ Count(overlay.calls, "onOpen") - Count(overlay.calls, "onClose")
       = IF overlay.isOpen THEN 1 ELSE 0

\* open() on an open overlay and close() on a closed one leave the options,
\* isOpen, the display, the canvas and the calls made as they were
RepeatedCallChangesNothing ==
  ((overlay'.op = "open" /\ overlay.isOpen)
     \/ (overlay'.op = "close" /\ ~overlay.isOpen))
    => [overlay' EXCEPT !.op = overlay.op,
                        !.wasOpen = overlay.wasOpen,
                        !.events = overlay.events] = overlay

\* C11 as stated: after any sequence of open(), close(), toggle(), keydown
\* events and background clicks the display is "flex" exactly when isOpen
\* is true and "none" otherwise; open() on an open overlay and close() on a
\* closed one change nothing and call no callback; the onOpen and onClose
\* calls alternate starting with onOpen, and there is one more onOpen call
\* than onClose calls when the overlay is open and as many when it is closed.
C11_Lifecycle ==
  /\ [](DisplayMatchesIsOpen /\ CallbacksBalanced)
  /\ [][RepeatedCallChangesNothing]_vars

\* C11, amended: the display and the repeated calls are as stated for every
\* overlay; the callback calls alternate and balance as stated when both
\* onOpen and onClose are functions; an option that is not a function is
\* never called.
C11_LifecycleWithCallbacks ==
  /\ [](/\ DisplayMatchesIsOpen
        /\ (overlay.onOpen /\ overlay.onClose) => CallbacksBalanced
        /\ ~overlay.onOpen => Count(overlay.calls, "onOpen") = 0
        /\ ~overlay.onClose => Count(overlay.calls, "onClose") = 0)
  /\ [][RepeatedCallChangesNothing]_vars

\* both callbacks given; the overlay was opened, closed and opened again,
\* and then open() was called on the open overlay
C11_Witness ==
  /\ overlay.onOpen /\ overlay.onClose
  /\ overlay.op = "open"
  /\ overlay.wasOpen
  /\ overlay.calls = <<"onOpen", "onClose", "onOpen">>

====
